---------------------------- MODULE Spec2Model ----------------------------
(***************************************************************************)
(* A model of app.py, the Flask application of the Roblox trade ad helper. *)
(*                                                                         *)
(* State: the Redis store (the catalog snapshot key and one cookie key per *)
(* account, each with its remaining time to live), the position and the    *)
(* locals of every request in flight, and the last HTTP response sent.     *)
(* The remote services (Roblox, Rolimon's) and Redis failures are the      *)
(* environment: every call to them draws its outcome from a small set.     *)
(***************************************************************************)
EXTENDS Integers, Sequences, FiniteSets, Bags, TLC

VARIABLES
    redis,              \* redis_client's store: the catalog key and the cookie keys
    cpc,                \* get_all_limiteds_from_rolimons: position of each caller
    cat_data,           \* ... its local data["items"], the origin's item mapping
    cat_items,          \* ... its local all_items
    cres,               \* ... its return value (items | None, message)
    cenv,               \* ghost: what the cache and the origin answered that caller
    fetched,            \* ghost: seconds since that caller's origin call, until its write
                        \*        (-1: not followed, in behaviours that start so)
    snapshot,           \* ghost: the origin mapping and the list of the SETEX the key holds
    ipc,                \* get_inventory_api: position of the request in flight
    owned,              \* environment: the collectibles the account owns, in listing order
    user_id,            \* ... its local user_id
    all_items,          \* get_user_limiteds: its local all_items
    next_page_cursor,   \* get_user_limiteds: its local next_page_cursor
    requested,          \* ghost: the cursors of the page requests sent so far
    answered,           \* ghost: how many of them the listing has answered
    served,             \* environment: how many of the owned items the pages have carried
    inventory,          \* get_inventory_api: its local inventory (items | None)
    rolimons_items,     \* get_inventory_api: its local rolimons_items (items | None)
    verifying,          \* verify_phrase: the requests between their origin call and
                        \*                their store (a bag), each with its locals user_id
                        \*                and roli_verification_cookie and, ghost, the
                        \*                seconds since its origin response came
    posting,            \* post_trade_ad: the request between its lookup and its origin
                        \*                call, with its locals data and user_cookie
    resp                \* the HTTP response the last step sent, if it sent one

vars == <<redis, cpc, cat_data, cat_items, cres, cenv, fetched, snapshot, ipc, owned,
          user_id, all_items, next_page_cursor, requested, answered, served,
          inventory, rolimons_items, verifying, posting, resp>>

catVars == <<cpc, cat_data, cat_items, cres, cenv>>
credVars == <<verifying, posting>>
invVars == <<ipc, owned, user_id, all_items, next_page_cursor, requested, answered,
             served, inventory, rolimons_items>>

----------------------------------------------------------------------------
(* Bounds of the model. *)

NumCallers == 2         \* concurrent callers of get_all_limiteds_from_rolimons
MaxPages == 3           \* page requests one get_user_limiteds may send
MaxPageLen == 2         \* items on one inventory page
MaxVerifying == 2       \* verify_phrase requests between their origin call and their store

(* Program constants. *)

CACHE_EXPIRATION_SECONDS == 900
COOKIE_EXPIRATION_SECONDS == 86400

Callers == 1..NumCallers

\* the call of get_all_limiteds_from_rolimons the inventory route makes (line 116)
\* runs beside the callers of the catalog route
InventoryCaller == 0
AllCallers == Callers \cup {InventoryCaller}

Min(a, b) == IF a < b THEN a ELSE b
Accounts == {156, 9001}
Tokens == {"tokA", "tokB"}

----------------------------------------------------------------------------
(* json.dumps / json.loads on the catalog list.  The text is modelled as   *)
(* its sequence of JSON tokens.                                            *)

Punct(p) == [k |-> p, s |-> "", n |-> 0]
StrTok(s) == [k |-> "str", s |-> s, n |-> 0]
NumTok(n) == [k |-> "num", s |-> "", n |-> n]

DumpEntry(e) ==
    << Punct("{"),
       StrTok("id"), Punct(":"), StrTok(e.id), Punct(","),
       StrTok("name"), Punct(":"), StrTok(e.name), Punct(","),
       StrTok("rap"), Punct(":"), NumTok(e.rap), Punct(","),
       StrTok("value"), Punct(":"), NumTok(e.value),
       Punct("}") >>

RECURSIVE DumpElems(_, _)
DumpElems(list, i) ==
    IF i > Len(list) THEN << >>
    ELSE (IF i > 1 THEN << Punct(",") >> ELSE << >>)
         \o DumpEntry(list[i]) \o DumpElems(list, i + 1)

Dumps(list) == << Punct("[") >> \o DumpElems(list, 1) \o << Punct("]") >>

EmptyEntry == [id |-> "", name |-> "", rap |-> 0, value |-> 0]

RECURSIVE ParseMembers(_, _, _)
ParseMembers(toks, i, acc) ==
    LET key == toks[i].s
        v == toks[i + 2]
        acc2 == CASE key = "id" -> [acc EXCEPT !.id = v.s]
                  [] key = "name" -> [acc EXCEPT !.name = v.s]
                  [] key = "rap" -> [acc EXCEPT !.rap = v.n]
                  [] key = "value" -> [acc EXCEPT !.value = v.n]
                  [] OTHER -> acc
    IN  IF toks[i + 3].k = "}"
        THEN [obj |-> acc2, next |-> i + 4]
        ELSE ParseMembers(toks, i + 4, acc2)

RECURSIVE ParseElems(_, _, _)
ParseElems(toks, i, out) ==
    IF toks[i].k = "]" THEN out
    ELSE LET r == ParseMembers(toks, i + 1, EmptyEntry)
         IN  ParseElems(toks,
                        IF toks[r.next].k = "," THEN r.next + 1 ELSE r.next,
                        Append(out, r.obj))

\* a loader that reads rap and value from each other's key
LoadsSwapped(toks) ==
    LET l == ParseElems(toks, 2, << >>)
    IN  [i \in 1..Len(l) |-> [l[i] EXCEPT !.rap = l[i].value, !.value = l[i].rap]]

Loads(toks) == ParseElems(toks, 2, << >>)

----------------------------------------------------------------------------
(* Redis: a key holds a value and its remaining time to live, or nothing.  *)

NoCatalog == [live |-> FALSE, val |-> << >>, ttl |-> 0]
NoCookie == [live |-> FALSE, val |-> "", ttl |-> 0]

\* redis_client.setex(key, seconds, value): the entry the key then holds
Setex(seconds, value) == [live |-> TRUE, val |-> value, ttl |-> seconds]

\* a key's entry once d more seconds have passed
Aged(entry, d, none) ==
    IF entry.live /\ entry.ttl > d THEN [entry EXCEPT !.ttl = entry.ttl - d] ELSE none

----------------------------------------------------------------------------
(* The origin catalog service (ROLIMONS_API_URL).                          *)

Dominus == << "Dominus", "x", 500, 10000 >>
DominusNew == << "Dominus", "x", 600, 12000 >>
Clockwork == << "Clockwork", "cw", 40, -1 >>
\* a details list one element short: details[3] does not exist
Broken == << "Broken", "bk", 7 >>

OriginCatalogs ==
    { << >>,
      << [id |-> "1", details |-> Dominus] >>,
      << [id |-> "1", details |-> Dominus], [id |-> "3", details |-> Clockwork] >>,
      << [id |-> "3", details |-> Clockwork], [id |-> "1", details |-> DominusNew] >>,
      << [id |-> "1", details |-> Dominus], [id |-> "4", details |-> Broken] >> }

\* the outcomes of requests.get(ROLIMONS_API_URL) ... response.json()
OriginResponses ==
    { [kind |-> "fail", success |-> FALSE, hasItems |-> FALSE, items |-> << >>],
      [kind |-> "ok", success |-> FALSE, hasItems |-> TRUE, items |-> << >>],
      [kind |-> "ok", success |-> TRUE, hasItems |-> FALSE, items |-> << >>] }
    \cup { [kind |-> "ok", success |-> TRUE, hasItems |-> TRUE, items |-> c] :
             c \in OriginCatalogs }

\* Python's zero-based list[i]
PyIndex(list, i) == list[i + 1]

\* line 89: details[3] (or details[2], details[0]) raises IndexError on a short list
Raises(items) == \E i \in 1..Len(items) : Len(items[i].details) < 4

\* line 89: the list comprehension over data["items"].items(), when it does not raise
Flatten(items) ==
    [i \in 1..Len(items) |->
        [id |-> items[i].id,
         name |-> PyIndex(items[i].details, 0),
         rap |-> PyIndex(items[i].details, 2),
         value |-> PyIndex(items[i].details, 3)]]

(* The return value of get_all_limiteds_from_rolimons: (items | None, message). *)
Ret(none, items, msg) == [none |-> none, items |-> items, msg |-> msg]
NoRet == Ret(TRUE, << >>, "")

\* ghost: what the cache write stored whose snapshot the key holds
\* (age counts from the write, fetched from the origin call that brought the
\* data, where the callers' origin calls are followed)
Snap(src, items, age) ==
    [written |-> TRUE, src |-> src, items |-> items, age |-> 0, fetched |-> age]
NoSnap == [written |-> FALSE, src |-> << >>, items |-> << >>, age |-> 0, fetched |-> 0]

\* ghost: the answers one caller got: the cache read, the origin call, the cache write
Env(read, origin, write) == [read |-> read, origin |-> origin, write |-> write]
NoEnv == Env("none", "none", "none")

\* ghost: the age of an origin call just made, and whether ages are followed
Restart(age) == IF age < 0 THEN age ELSE 0
Followed == \A c \in AllCallers : fetched[c] >= 0

\* lines 76-81: the cache read; ok is FALSE when redis raises RedisError
CatalogRead(r, ok) ==
    IF ok /\ r.catalog.live /\ Len(r.catalog.val) > 0
    THEN [hit |-> TRUE, ret |-> Ret(FALSE, Loads(r.catalog.val), "cache")]
    ELSE [hit |-> FALSE, ret |-> NoRet]

\* lines 84-89 and 96-98: the origin call; parsed is FALSE on a failure return and
\* when line 89 raises IndexError, which no handler of the function catches (the
\* exception leaves the function: the message "IndexError" stands for it)
CatalogParse(o) ==
    IF o.kind = "fail" THEN [parsed |-> FALSE, items |-> << >>, ret |-> Ret(TRUE, << >>, "error")]
    ELSE IF o.success /\ o.hasItems
         THEN IF Raises(o.items)
              THEN [parsed |-> FALSE, items |-> << >>, ret |-> Ret(TRUE, << >>, "IndexError")]
              ELSE [parsed |-> TRUE, items |-> Flatten(o.items), ret |-> NoRet]
         ELSE [parsed |-> FALSE, items |-> << >>, ret |-> Ret(TRUE, << >>, "parse")]

\* a cache write that leaves a held snapshot in place (SET NX)
CatalogStoreFirstWins(r, items, ok) ==
    [stored |-> ok,
     redis |-> IF ok /\ ~r.catalog.live
               THEN [r EXCEPT !.catalog = Setex(CACHE_EXPIRATION_SECONDS, Dumps(items))]
               ELSE r,
     ret |-> Ret(FALSE, items, "origin")]

\* a cache write whose failure fails the call
CatalogStoreFailing(r, items, ok) ==
    [stored |-> ok,
     redis |-> IF ok THEN [r EXCEPT !.catalog = Setex(CACHE_EXPIRATION_SECONDS, Dumps(items))]
               ELSE r,
     ret |-> IF ok THEN Ret(FALSE, items, "origin") ELSE Ret(TRUE, << >>, "error")]

\* a cache write that stores all entries but the last
CatalogStorePartial(r, items, ok) ==
    [stored |-> ok,
     redis |-> IF ok
               THEN [r EXCEPT !.catalog =
                       Setex(CACHE_EXPIRATION_SECONDS,
                             Dumps(SubSeq(items, 1, Len(items) - 1)))]
               ELSE r,
     ret |-> Ret(FALSE, items, "origin")]

\* lines 90-94: the cache write; ok is FALSE when redis raises RedisError
CatalogStore(r, items, ok) ==
    [stored |-> ok,
     redis |-> IF ok THEN [r EXCEPT !.catalog = Setex(CACHE_EXPIRATION_SECONDS, Dumps(items))]
               ELSE r,
     ret |-> Ret(FALSE, items, "origin")]

----------------------------------------------------------------------------
(* HTTP responses of the routes.  status is the code the route returns;    *)
(* kind names what happened in the terms of the error taxonomy; origin,    *)
(* cookie and cache record what the origin and Redis answered the handler; *)
(* ad is the request the handler sent to the ad endpoint, body the JSON    *)
(* body the caller posted.                                                 *)

NoAd == [sent |-> FALSE, cookie |-> "", player_id |-> 0,
         offer_item_ids |-> << >>, request_item_ids |-> << >>, request_tags |-> << >>]

NoList == [present |-> FALSE, list |-> << >>]
NoBody == [player_id |-> 0, offer_item_ids |-> NoList, request_item_ids |-> NoList,
           request_tags |-> NoList]

Response(op, status, kind, data) ==
    [op |-> op, status |-> status, kind |-> kind, data |-> data, acct |-> 0,
     origin |-> "none", cookie |-> "", cache |-> "none", ad |-> NoAd, body |-> NoBody]

NoResp == Response("none", 0, "none", << >>)

(* sorted(..., key=lambda x: x.get('name', '')): Python compares strings by *)
(* code point, and the sort is stable.                                      *)
NameOrder == << "", "Clockwork", "Dominus", "clockwork" >>
NameRank(name) == CHOOSE i \in 1..Len(NameOrder) : NameOrder[i] = name

RECURSIVE InsertByName(_, _)
InsertByName(x, list) ==
    IF list = << >> THEN << x >>
    ELSE IF NameRank(x.name) < NameRank(list[1].name)
         THEN << x >> \o list
         ELSE << list[1] >> \o InsertByName(x, Tail(list))

RECURSIVE SortedByName(_)
SortedByName(list) ==
    IF list = << >> THEN << >>
    ELSE InsertByName(list[Len(list)], SortedByName(SubSeq(list, 1, Len(list) - 1)))

----------------------------------------------------------------------------
(* get_all_limiteds_from_rolimons, one step per blocking call, and the     *)
(* route /get-all-limiteds that calls it.                                  *)

\* lines 76-81: redis_client.get(cache_key)
GetCatalogRead(c) ==
    /\ cpc[c] = "idle"
    /\ \E ok \in BOOLEAN :
         LET rd == CatalogRead(redis, ok)
         IN  IF rd.hit
             THEN /\ cpc' = [cpc EXCEPT ![c] = "ret"]
                  /\ cres' = [cres EXCEPT ![c] = rd.ret]
                  /\ cenv' = [cenv EXCEPT ![c] = Env("hit", "none", "none")]
             ELSE /\ cpc' = [cpc EXCEPT ![c] = "fetch"]
                  /\ cres' = cres
                  /\ cenv' = [cenv EXCEPT ![c] =
                                Env(IF ok THEN "miss" ELSE "unavailable", "none", "none")]
    /\ resp' = NoResp
    /\ UNCHANGED <<credVars, fetched, redis, cat_data, cat_items, snapshot, invVars>>

\* lines 84-89, 96-98: requests.get(ROLIMONS_API_URL)
GetCatalogFetch(c) ==
    /\ cpc[c] = "fetch"
    /\ \E o \in OriginResponses :
         LET p == CatalogParse(o)
         IN  IF p.parsed
             THEN /\ cpc' = [cpc EXCEPT ![c] = "write"]
                  /\ cat_data' = [cat_data EXCEPT ![c] = o.items]
                  /\ cat_items' = [cat_items EXCEPT ![c] = p.items]
                  /\ cres' = cres
                  /\ cenv' = [cenv EXCEPT ![c].origin = "ok"]
             ELSE /\ cpc' = [cpc EXCEPT ![c] = "ret"]
                  /\ cat_data' = [cat_data EXCEPT ![c] = o.items]
                  /\ cat_items' = cat_items
                  /\ cres' = [cres EXCEPT ![c] = p.ret]
                  /\ cenv' = [cenv EXCEPT ![c].origin = p.ret.msg]
    /\ fetched' = [fetched EXCEPT ![c] = Restart(fetched[c])]
    /\ resp' = NoResp
    /\ UNCHANGED <<redis, snapshot, invVars, credVars>>

\* lines 90-95: redis_client.setex(cache_key, ...) and the return
GetCatalogWrite(c) ==
    /\ cpc[c] = "write"
    /\ \E ok \in BOOLEAN :
         LET st == CatalogStore(redis, cat_items[c], ok)
         IN  /\ redis' = st.redis
             /\ snapshot' = IF st.stored
                            THEN Snap(cat_data[c], cat_items[c], fetched[c])
                            ELSE snapshot
             /\ cres' = [cres EXCEPT ![c] = st.ret]
             /\ cenv' = [cenv EXCEPT ![c].write = IF ok THEN "ok" ELSE "failed"]
    /\ cpc' = [cpc EXCEPT ![c] = "ret"]
    /\ resp' = NoResp
    /\ fetched' = [fetched EXCEPT ![c] = Restart(fetched[c])]
    /\ UNCHANGED <<cat_data, cat_items, invVars, credVars>>

\* lines 127-134: the route's response; Flask answers an uncaught exception with 500
GetAllLimitedsResponse(ret) ==
    IF ret.msg = "IndexError"
    THEN Response("get_all_limiteds", 500, "Fault", << >>)
    ELSE IF ret.none
    THEN Response("get_all_limiteds", 500, "UpstreamError", << >>)
    ELSE Response("get_all_limiteds", 200, "ok", SortedByName(ret.items))

get_all_limiteds_api(c) ==
    /\ cpc[c] = "ret"
    /\ resp' = GetAllLimitedsResponse(cres[c])
    /\ cpc' = [cpc EXCEPT ![c] = "idle"]
    /\ cres' = [cres EXCEPT ![c] = NoRet]
    /\ cenv' = [cenv EXCEPT ![c] = NoEnv]
    /\ cat_data' = [cat_data EXCEPT ![c] = << >>]
    /\ cat_items' = [cat_items EXCEPT ![c] = << >>]
    /\ UNCHANGED <<credVars, fetched, redis, snapshot, invVars>>

----------------------------------------------------------------------------
(* get_user_id: the identity lookup (USER_SEARCH_URL).                     *)

\* the outcomes of requests.post(USER_SEARCH_URL) ... response.json().get("data", [])
IdentityResponses ==
    { [kind |-> "fail", data |-> << >>], [kind |-> "ok", data |-> << >>] }
    \cup { [kind |-> "ok", data |-> << [id |-> a] >>] : a \in Accounts }

\* a user id, or None
SomeId(id) == [none |-> FALSE, id |-> id]
NoId == [none |-> TRUE, id |-> 0]

\* lines 38-51
get_user_id(o) ==
    IF o.kind = "fail" THEN [user_id |-> NoId, msg |-> "api error"]
    ELSE IF Len(o.data) > 0
         THEN [user_id |-> SomeId(PyIndex(o.data, 0).id), msg |-> "found"]
         ELSE [user_id |-> NoId, msg |-> "not found"]

\* Python's truth value of a user id (None and 0 are false)
Truthy(uid) == ~uid.none /\ uid.id # 0

----------------------------------------------------------------------------
(* get_user_limiteds: the paginated inventory listing.                     *)

Item(assetId, name, hasRap, rap) ==
    [assetId |-> assetId, name |-> name, hasRap |-> hasRap, recentAveragePrice |-> rap,
     enriched |-> FALSE, rap |-> 0, value |-> 0]

ItemPool ==
    { Item(1, "Dominus", TRUE, 500), Item(2, "clockwork", FALSE, 0),
      Item(3, "Clockwork", TRUE, 40) }

\* the inventories an account may own: the pool's items, each at most once, in any order
OwnedLists ==
    UNION { { l \in [1..n -> ItemPool] : \A i, j \in 1..n : i # j => l[i] # l[j] } :
            n \in 0..Cardinality(ItemPool) }

\* a nextPageCursor: absent (or null), or a string
Cursor(present, str) == [present |-> present, s |-> str]
EmptyCursor == Cursor(TRUE, "")
NextCursors == { Cursor(FALSE, ""), EmptyCursor, Cursor(TRUE, "c1") }

\* a test that takes the empty string for a cursor
HasCursorPresent(cur) == cur.present

\* Python's truth value of a cursor (None and "" are false)
HasCursor(cur) == cur.present /\ cur.s # ""

\* the outcomes of one requests.get(full_url) ... response.json(): a failure, or
\* a page carrying the next items of the inventory; the listing names a next
\* page as long as items remain
PageResponses(list, done) ==
    { [kind |-> "fail", hasData |-> FALSE, data |-> << >>, next |-> EmptyCursor] }
    \cup { p \in [kind : {"ok"}, hasData : BOOLEAN, next : NextCursors,
                  data : { SubSeq(list, done + 1, done + k) :
                             k \in 0..Min(MaxPageLen, Len(list) - done) }] :
             /\ p.data # << >> => p.hasData
             /\ done + Len(p.data) < Len(list) => HasCursor(p.next) }

\* line 59: the cursor appended to the URL
UrlCursor(cur) == IF HasCursor(cur) THEN cur.s ELSE ""

\* a loop that keeps only the last page's items
ExtendOverwrite(items, p) == IF p.hasData /\ Len(p.data) > 0 THEN p.data ELSE items

\* lines 63-64: the items after a page
Extend(items, p) == IF p.hasData /\ Len(p.data) > 0 THEN items \o p.data ELSE items

\* a failure that returns the items collected so far
FetchFailedPartial(items) == Ret(FALSE, items, "fetched")

\* lines 69-70: the return when a page request raises
FetchFailed(items) == NoRet

\* line 71: the return when the loop ends
FetchDone(items) == Ret(FALSE, items, "fetched")

----------------------------------------------------------------------------
(* Inventory enrichment (get_inventory_api, lines 116-124).                *)

Digits == << "0", "1", "2", "3", "4", "5", "6", "7", "8", "9" >>

\* str(n) of a non-negative integer
RECURSIVE ToStr(_)
ToStr(n) == IF n < 10 THEN Digits[n + 1] ELSE ToStr(n \div 10) \o Digits[(n % 10) + 1]

\* rolimons_map.get(asset_id): the last entry of that id, since a later key replaces an earlier
Lookup(catalog, asset_id) ==
    LET hits == { i \in 1..Len(catalog) : catalog[i].id = asset_id }
    IN  IF hits = {} THEN [found |-> FALSE, entry |-> EmptyEntry]
        ELSE [found |-> TRUE, entry |-> catalog[CHOOSE i \in hits : \A j \in hits : j <= i]]

\* an enrichment that takes recentAveragePrice out of the item as it reads it
EnrichItemPop(item, catalog) ==
    LET rolimons_data == Lookup(catalog, ToStr(item.assetId))
    IN  [item EXCEPT !.enriched = TRUE,
                     !.hasRap = FALSE,
                     !.rap = IF item.hasRap THEN item.recentAveragePrice ELSE -1,
                     !.value = IF rolimons_data.found THEN rolimons_data.entry.value ELSE -1]

\* lines 120-123
EnrichItem(item, catalog) ==
    LET rolimons_data == Lookup(catalog, ToStr(item.assetId))
    IN  [item EXCEPT !.enriched = TRUE,
                     !.rap = IF item.hasRap THEN item.recentAveragePrice ELSE -1,
                     !.value = IF rolimons_data.found THEN rolimons_data.entry.value ELSE -1]

\* lines 118-123
Enrich(items, catalog) == [i \in 1..Len(items) |-> EnrichItem(items[i], catalog)]

\* lines 117-123: the enrichment is skipped when rolimons_items is None or empty
EnrichIfCatalog(items, ret) ==
    IF ~ret.none /\ Len(ret.items) > 0 THEN Enrich(items, ret.items) ELSE items

\* lines 117-124
EnrichedInventory(items, ret) == SortedByName(EnrichIfCatalog(items, ret))

----------------------------------------------------------------------------
(* The route /api/get-inventory/<username>, one step per blocking call:    *)
(* the identity lookup, each inventory page, and the cache read, the origin *)
(* call and the cache write of the catalog call; the enrichment and the     *)
(* response end it.                                                         *)

\* lines 110-112
InventoryIdentity ==
    /\ ipc = "idle"
    /\ \E o \in IdentityResponses, list \in OwnedLists :
         LET r == get_user_id(o)
         IN  IF ~Truthy(r.user_id)
             THEN /\ resp' = [Response("get_inventory", 404, "NotFound", << >>)
                                 EXCEPT !.origin = o.kind]
                  /\ owned' = << >>
                  /\ user_id' = 0
                  /\ ipc' = "idle"
             ELSE /\ resp' = NoResp
                  /\ owned' = list
                  /\ user_id' = r.user_id.id
                  /\ ipc' = "pages"
    /\ all_items' = << >>
    /\ next_page_cursor' = EmptyCursor
    /\ requested' = << >>
    /\ answered' = 0
    /\ served' = 0
    /\ inventory' = NoRet
    /\ rolimons_items' = NoRet
    /\ UNCHANGED <<credVars, fetched, redis, catVars, snapshot>>

\* lines 113-115: the route's answer when get_user_limiteds returned None
InventoryFailed == Response("get_inventory", 500, "UpstreamError", << >>)

\* lines 57-71 (one iteration of the loop) and lines 113-115
InventoryPage ==
    /\ ipc = "pages"
    /\ Len(requested) < MaxPages
    /\ requested' = Append(requested, UrlCursor(next_page_cursor))
    /\ \E p \in PageResponses(owned, served) :
         IF p.kind = "fail"
         THEN /\ inventory' = FetchFailed(all_items)
              /\ IF inventory'.none
                 THEN resp' = InventoryFailed /\ ipc' = "idle"
                 ELSE resp' = NoResp /\ ipc' = "catalog"
              /\ UNCHANGED <<all_items, next_page_cursor, answered, served>>
         ELSE /\ answered' = answered + 1
              /\ all_items' = Extend(all_items, p)
              /\ next_page_cursor' = p.next
              /\ served' = served + Len(p.data)
              /\ IF ~HasCursor(p.next)
                 THEN /\ inventory' = FetchDone(all_items')
                      /\ ipc' = "catalog"
                 ELSE UNCHANGED <<inventory, ipc>>
              /\ resp' = NoResp
    /\ UNCHANGED <<credVars, fetched, redis, catVars, snapshot, owned, user_id, rolimons_items>>

\* line 116: the catalog call of the route, the steps of
\* get_all_limiteds_from_rolimons taken by the inventory request
InventoryCatalogRead == ipc = "catalog" /\ GetCatalogRead(InventoryCaller)
InventoryCatalogFetch == ipc = "catalog" /\ GetCatalogFetch(InventoryCaller)
InventoryCatalogWrite == ipc = "catalog" /\ GetCatalogWrite(InventoryCaller)

\* lines 116-125, after the catalog call returned: the loop writes rap and value
\* into the items of inventory, and the answer is a sorted copy of them; an
\* IndexError raised in the catalog call is not caught here either, and Flask
\* answers 500
InventoryCatalog ==
    /\ ipc = "catalog"
    /\ cpc[InventoryCaller] = "ret"
    /\ rolimons_items' = cres[InventoryCaller]
    /\ resp' = IF cres[InventoryCaller].msg = "IndexError"
                THEN Response("get_inventory", 500, "Fault", << >>)
                ELSE Response("get_inventory", 200, "ok",
                              EnrichedInventory(inventory.items, cres[InventoryCaller]))
    /\ inventory' = IF cres[InventoryCaller].msg = "IndexError"
                    THEN inventory
                    ELSE [inventory EXCEPT
                            !.items = EnrichIfCatalog(inventory.items, cres[InventoryCaller])]
    /\ cpc' = [cpc EXCEPT ![InventoryCaller] = "idle"]
    /\ cres' = [cres EXCEPT ![InventoryCaller] = NoRet]
    /\ cenv' = [cenv EXCEPT ![InventoryCaller] = NoEnv]
    /\ cat_data' = [cat_data EXCEPT ![InventoryCaller] = << >>]
    /\ cat_items' = [cat_items EXCEPT ![InventoryCaller] = << >>]
    /\ ipc' = "idle"
    /\ UNCHANGED <<credVars, fetched, redis, snapshot, owned, user_id, all_items,
                   next_page_cursor, requested, answered, served>>

----------------------------------------------------------------------------
(* The verification routes and the ad route, one step per blocking call:   *)
(* a handler's origin call and its Redis call are separate steps, and time  *)
(* and other requests pass between them.  Up to MaxVerifying verify_phrase  *)
(* requests wait for their store at once, of one account or of several, and *)
(* store in any order; one post_trade_ad request is followed at a time: it  *)
(* writes nothing another request reads.                                    *)

\* the 2xx codes an origin answers with: raise_for_status lets every one pass
OkCodes == {200, 201}

\* what resp.json() does: it parses the body, or raises on a body that is not
\* JSON: requests.exceptions.JSONDecodeError (a RequestException) from requests
\* 2.27 on, a plain ValueError before
Bodies == {"json", "JSONDecodeError", "ValueError"}

\* return jsonify(resp.json()), resp.status_code (lines 146, 165, 196) under the
\* handler's except RequestException (lines 147, 167, 197); Flask answers an
\* uncaught ValueError with 500
JsonReply(o, kind) ==
    IF o.body = "json" THEN [status |-> o.code, kind |-> kind]
    ELSE IF o.body = "JSONDecodeError" THEN [status |-> 500, kind |-> "UpstreamError"]
    ELSE [status |-> 500, kind |-> "Fault"]

\* a 2xx response: its status code and what its body is; the code of a response
\* whose body does not parse is never read
TwoXX ==
    { b \in [code : OkCodes, body : Bodies] : b.body # "json" => b.code = 200 }

\* the outcomes of requests.get(ROLIMONS_GET_PHRASE_URL): a failure or a 2xx response
PhraseResponses ==
    { [kind |-> "fail", code |-> 0, body |-> "json"] }
    \cup { [kind |-> "ok", code |-> b.code, body |-> b.body] : b \in TwoXX }

\* lines 138-148
get_phrase(a) ==
    /\ \E o \in PhraseResponses :
         LET r == IF o.kind = "ok" THEN JsonReply(o, "ok")
                  ELSE [status |-> 500, kind |-> "UpstreamError"]
         IN  resp' = [Response("get_phrase", r.status, r.kind, << >>)
                        EXCEPT !.acct = a, !.origin = o.kind]
    /\ UNCHANGED <<credVars, fetched, redis, catVars, invVars, snapshot>>

\* the outcomes of requests.post(ROLIMONS_VERIFY_PHRASE_URL): a failure, or a 2xx
\* response with or without the _RoliVerification cookie.  A failure's exception
\* carries no response, or one that is false (code 0: a connection error, a
\* timeout, the HTTPError of a 4xx or 5xx), or one that is true (code 302: the
\* TooManyRedirects of a redirect loop)
VerifyResponses ==
    { [kind |-> "fail", hasCookie |-> FALSE, cookie |-> "", code |-> 0, body |-> "json"] }
    \cup { [kind |-> "fail", hasCookie |-> FALSE, cookie |-> "", code |-> 302, body |-> b] :
             b \in Bodies }
    \cup { [kind |-> "ok", hasCookie |-> FALSE, cookie |-> "", code |-> b.code,
             body |-> b.body] : b \in TwoXX }
    \cup { [kind |-> "ok", hasCookie |-> TRUE, cookie |-> t, code |-> b.code,
             body |-> b.body] : t \in {""} \cup Tokens, b \in TwoXX }

\* a verify_phrase request between its origin call and its store: of the
\* response it holds, the request has read the cookie
Verifying(a, cookie, age) == [acct |-> a, cookie |-> cookie, age |-> age]

\* a check that accepts an empty cookie
CookieGivenLoose(o) == o.hasCookie

\* lines 158-159: the truth value of resp.cookies.get('_RoliVerification')
CookieGiven(o) == o.hasCookie /\ o.cookie # ""

\* a store that replaces the token of a held credential but keeps its expiry
StoreCookieKeepTtl(r, a, cookie) ==
    [r EXCEPT !.cookie[a] =
        Setex(IF r.cookie[a].live THEN r.cookie[a].ttl ELSE COOKIE_EXPIRATION_SECONDS, cookie)]

\* line 163: redis_client.setex(f"user_cookie:{user_id}", 86400, cookie)
StoreCookie(r, a, cookie) ==
    [r EXCEPT !.cookie[a] = Setex(COOKIE_EXPIRATION_SECONDS, cookie)]

\* lines 155-160 and 167-169: the answer to the origin's response; the handler
\* goes on to the store when the origin gave a cookie.  Line 168 parses the
\* response of the exception when there is one and it is true: a body that is
\* not JSON raises inside the except block, and Flask answers 500
VerifyReceived(o) ==
    IF o.kind = "fail"
    THEN IF o.code = 0 \/ o.body = "json"
         THEN [store |-> FALSE, status |-> 500, kind |-> "UpstreamError"]
         ELSE [store |-> FALSE, status |-> 500, kind |-> "Fault"]
    ELSE IF ~CookieGiven(o)
         THEN [store |-> FALSE, status |-> 400, kind |-> "VerificationFailed"]
         ELSE [store |-> TRUE, status |-> 0, kind |-> "none"]

\* lines 163-169: the store and then the reply; redisOk is FALSE when redis raises
\* RedisError, which the handler does not catch: Flask answers an unhandled
\* exception with status 500.  The reply is built after the store: a body that
\* is not JSON fails the request with the cookie already stored
VerifyOutcome(r, a, o, redisOk) ==
    IF ~redisOk
    THEN [redis |-> r, status |-> 500, kind |-> "Fault", cache |-> "error"]
    ELSE LET j == JsonReply(o, "VerificationCredential")
         IN  [redis |-> StoreCookie(r, a, o.cookie), status |-> j.status,
              kind |-> j.kind, cache |-> "ok"]

\* the responses as lines 155-160 and 167-169 tell them apart: of a 2xx
\* response they read the cookie; its status and its body are read at line 165
ResponsesAtPost == { o \in VerifyResponses : o.kind = "ok" => o.code = 200 /\ o.body = "json" }

\* lines 153-160: requests.post(ROLIMONS_VERIFY_PHRASE_URL)
VerifyPost(a) ==
    /\ BagCardinality(verifying) < MaxVerifying
    /\ \E o \in ResponsesAtPost :
         LET v == VerifyReceived(o)
         IN  IF v.store
             THEN /\ verifying' = verifying (+) SetToBag({Verifying(a, o.cookie, 0)})
                  /\ resp' = NoResp
             ELSE /\ verifying' = verifying
                  /\ resp' = [Response("verify_phrase", v.status, v.kind, << >>)
                                EXCEPT !.acct = a, !.origin = o.kind, !.cookie = o.cookie]
    /\ UNCHANGED <<posting, fetched, redis, catVars, invVars, snapshot>>

\* the responses a request that read this cookie may hold
Holding(cookie) == { o \in VerifyResponses : CookieGiven(o) /\ o.cookie = cookie }

\* lines 163-165: redis_client.setex(...) and the reply, of one of the requests
\* that wait for their store; the status and the body of its response come in
\* where line 165 reads them
VerifyStore(a) ==
    /\ \E w \in BagToSet(verifying) :
         /\ w.acct = a
         /\ verifying' = verifying (-) SetToBag({w})
         /\ \E o \in Holding(w.cookie), redisOk \in BOOLEAN :
              LET v == VerifyOutcome(redis, a, o, redisOk)
              IN  /\ redis' = v.redis
                  /\ resp' = [Response("verify_phrase", v.status, v.kind, << >>)
                                EXCEPT !.acct = a, !.origin = o.kind,
                                       !.cookie = o.cookie, !.cache = v.cache]
    /\ UNCHANGED <<posting, fetched, catVars, invVars, snapshot>>

\* lines 150-169
verify_phrase(a) == VerifyPost(a) \/ VerifyStore(a)

\* a list of the request body that may be missing
Given(list) == [present |-> TRUE, list |-> list]
Missing == [present |-> FALSE, list |-> << >>]

\* data.get(key, [])
GetOrEmpty(opt) == IF opt.present THEN opt.list ELSE << >>

\* data.get("player_id") of a body without the key: None
NoPlayer == 0
PlayerIds == Accounts \cup {NoPlayer}

\* the lists a request body of /api/post-trade-ad carries
AdLists ==
    { << Missing, Given(<< >>), Missing >>,
      << Given(<< 1, 3 >>), Missing, Given(<< "demand" >>) >> }

\* the request bodies of /api/post-trade-ad
AdBodies ==
    { [player_id |-> a, offer_item_ids |-> l[1], request_item_ids |-> l[2],
       request_tags |-> l[3]] : a \in PlayerIds, l \in AdLists }

\* no post_trade_ad request is between its lookup and its origin call
NoPosting == [active |-> FALSE, data |-> NoBody, user_cookie |-> ""]

\* the outcomes of requests.post(ROLIMONS_TRADE_AD_URL): a failure or a 2xx response
AdResponses ==
    { [kind |-> "fail", code |-> 0, body |-> "json"] }
    \cup { [kind |-> "ok", code |-> b.code, body |-> b.body] : b \in TwoXX }

\* a lookup that finds a credential only until its first tick of age
GetCookieFresh(r, a) ==
    IF a \in Accounts /\ r.cookie[a].live /\ r.cookie[a].ttl = COOKIE_EXPIRATION_SECONDS
    THEN r.cookie[a].val ELSE ""

\* lines 179-180: redis_client.get(f"user_cookie:{user_id}"), None when the key is
\* not held; no request stores under the key of a body without player_id
GetCookie(r, a) == IF a \in Accounts /\ r.cookie[a].live THEN r.cookie[a].val ELSE ""

\* lines 185-191: the request sent to the origin
AdRequest(data, user_cookie) ==
    [sent |-> TRUE, cookie |-> user_cookie, player_id |-> data.player_id,
     offer_item_ids |-> GetOrEmpty(data.offer_item_ids),
     request_item_ids |-> GetOrEmpty(data.request_item_ids),
     request_tags |-> GetOrEmpty(data.request_tags)]

\* a lookup that takes an unreachable cache for an absent credential
AdLookupSoft(r, data, redisOk) ==
    IF ~redisOk \/ GetCookie(r, data.player_id) = ""
    THEN [found |-> FALSE, user_cookie |-> "", status |-> 401, kind |-> "Unauthenticated"]
    ELSE [found |-> TRUE, user_cookie |-> GetCookie(r, data.player_id), status |-> 0,
          kind |-> "none"]

\* a lookup that goes on to post the ad whether or not a cookie was found
AdLookupNoCheck(r, data, redisOk) ==
    IF ~redisOk
    THEN [found |-> FALSE, user_cookie |-> "", status |-> 500, kind |-> "CacheUnavailable"]
    ELSE [found |-> TRUE, user_cookie |-> GetCookie(r, data.player_id), status |-> 0,
          kind |-> "none"]

\* lines 174-183: the lookup of the cookie; redisOk is FALSE when redis raises RedisError
AdLookup(r, data, redisOk) ==
    LET user_cookie == GetCookie(r, data.player_id)
    IN  IF ~redisOk
        THEN [found |-> FALSE, user_cookie |-> "", status |-> 500,
              kind |-> "CacheUnavailable"]
        ELSE IF user_cookie = ""
             THEN [found |-> FALSE, user_cookie |-> "", status |-> 401,
                   kind |-> "Unauthenticated"]
             ELSE [found |-> TRUE, user_cookie |-> user_cookie, status |-> 0,
                   kind |-> "none"]

\* lines 193-199: the answer to the origin's response
AdOutcome(o) ==
    IF o.kind = "ok" THEN JsonReply(o, "ok")
    ELSE [status |-> 500, kind |-> "UpstreamError"]

\* lines 174-183: redis_client.get(f"user_cookie:{user_id}")
AdGetCookie(a) ==
    /\ ~posting.active
    /\ \E data \in AdBodies, redisOk \in BOOLEAN :
         /\ data.player_id = a
         /\ LET l == AdLookup(redis, data, redisOk)
            IN  IF l.found
                THEN /\ posting' = [active |-> TRUE, data |-> data,
                                    user_cookie |-> l.user_cookie]
                     /\ resp' = NoResp
                ELSE /\ posting' = posting
                     /\ resp' = [Response("post_trade_ad", l.status, l.kind, << >>)
                                   EXCEPT !.acct = a,
                                          !.cache = IF redisOk THEN "ok" ELSE "error",
                                          !.body = data]
    /\ UNCHANGED <<verifying, fetched, redis, catVars, invVars, snapshot>>

\* lines 185-199: requests.post(ROLIMONS_TRADE_AD_URL) and the reply
AdPost(a) ==
    /\ posting.active
    /\ posting.data.player_id = a
    /\ \E o \in AdResponses :
         LET r == AdOutcome(o)
         IN  resp' = [Response("post_trade_ad", r.status, r.kind, << >>)
                        EXCEPT !.acct = a, !.origin = o.kind, !.cache = "ok",
                               !.ad = AdRequest(posting.data, posting.user_cookie),
                               !.body = posting.data]
    /\ posting' = NoPosting
    /\ UNCHANGED <<verifying, fetched, redis, catVars, invVars, snapshot>>

\* lines 171-199
post_trade_ad(a) == AdGetCookie(a) \/ AdPost(a)

----------------------------------------------------------------------------
(* The environment of the store: time passes, and Redis may evict a key.   *)

\* an age after d more seconds, counted up to cap
Older(age, d, cap) == Min(age + d, cap)

Tick(d) ==
    /\ redis' = [catalog |-> Aged(redis.catalog, d, NoCatalog),
                 cookie |-> [a \in Accounts |-> Aged(redis.cookie[a], d, NoCookie)]]
    /\ snapshot' = IF snapshot.written /\ redis'.catalog.live
                   THEN [snapshot EXCEPT
                           !.age = Older(snapshot.age, d, CACHE_EXPIRATION_SECONDS),
                           !.fetched = IF snapshot.fetched < 0 THEN snapshot.fetched
                                       ELSE Older(snapshot.fetched, d,
                                                  2 * CACHE_EXPIRATION_SECONDS)]
                   ELSE NoSnap
    /\ fetched' = [c \in AllCallers |->
                     IF cpc[c] = "write" /\ fetched[c] >= 0
                     THEN Older(fetched[c], d, CACHE_EXPIRATION_SECONDS)
                     ELSE fetched[c]]
    \* the age of a waiting verify_phrase is counted up to one tick
    /\ verifying' = BagOfAll(LAMBDA w : [w EXCEPT !.age = Older(w.age, d, COOKIE_EXPIRATION_SECONDS \div 2)],
                             verifying)
    /\ resp' = NoResp
    /\ UNCHANGED <<catVars, invVars, posting>>

EvictCatalog ==
    /\ redis.catalog.live
    /\ redis' = [redis EXCEPT !.catalog = NoCatalog]
    /\ snapshot' = NoSnap
    /\ resp' = NoResp
    /\ UNCHANGED <<credVars, fetched, catVars, invVars>>

CatalogTicks == {CACHE_EXPIRATION_SECONDS \div 2}
CookieTicks == {COOKIE_EXPIRATION_SECONDS \div 2}

----------------------------------------------------------------------------
\* an entry set age seconds ago
KeptFor(entry, age, none) == IF age = 0 THEN entry ELSE Aged(entry, age, none)

\* what the catalog key may hold when the module is loaded (lines 17-34 only
\* create the client): nothing, or the list an earlier run of the application
\* stored, some of its lifetime gone; with the ghost of that write
StartCatalogs(follow) ==
    { [entry |-> NoCatalog, snap |-> NoSnap] }
    \cup { [entry |-> KeptFor(Setex(CACHE_EXPIRATION_SECONDS, Dumps(Flatten(c))), age,
                              NoCatalog),
            snap |-> [Snap(c, Flatten(c), IF follow THEN age ELSE -1) EXCEPT !.age = age]] :
             c \in { d \in OriginCatalogs : ~Raises(d) },
             age \in {0, CACHE_EXPIRATION_SECONDS \div 2} }

\* what a cookie key may hold then: nothing, or the cookie an earlier run stored
StartCookies ==
    { NoCookie }
    \cup { KeptFor(Setex(COOKIE_EXPIRATION_SECONDS, t), age, NoCookie) :
             t \in Tokens, age \in {0, COOKIE_EXPIRATION_SECONDS \div 2} }

\* the state after the module is loaded: Redis holds what the server holds, no
\* request is in flight
Started(catalogs, cookies) ==
    /\ \E cat \in catalogs, ck \in [Accounts -> cookies] :
         /\ redis = [catalog |-> cat.entry, cookie |-> ck]
         /\ snapshot = cat.snap
    /\ cpc = [c \in AllCallers |-> "idle"]
    /\ cat_data = [c \in AllCallers |-> << >>]
    /\ cat_items = [c \in AllCallers |-> << >>]
    /\ cres = [c \in AllCallers |-> NoRet]
    /\ cenv = [c \in AllCallers |-> NoEnv]
    /\ ipc = "idle"
    /\ owned = << >>
    /\ user_id = 0
    /\ all_items = << >>
    /\ next_page_cursor = EmptyCursor
    /\ requested = << >>
    /\ answered = 0
    /\ served = 0
    /\ inventory = NoRet
    /\ rolimons_items = NoRet
    /\ verifying = EmptyBag
    /\ posting = NoPosting
    /\ resp = NoResp

NotFollowed == [c \in AllCallers |-> -1]

Init == Started(StartCatalogs(FALSE), StartCookies) /\ fetched = NotFollowed

(* The starts that differ in the catalog key: no step of the catalog or the *)
(* inventory route reads a cookie key.                                      *)
InitCatalog == Started(StartCatalogs(FALSE), {NoCookie}) /\ fetched = NotFollowed

(* The catalog route under concurrent callers. *)
NextCatalog ==
    \/ \E c \in Callers : GetCatalogRead(c)
    \/ \E c \in Callers : GetCatalogFetch(c)
    \/ \E c \in Callers : GetCatalogWrite(c)
    \/ \E c \in Callers : get_all_limiteds_api(c)
    \/ \E d \in CatalogTicks : Tick(d)
    \/ EvictCatalog

SpecCatalog == InitCatalog /\ [][NextCatalog]_vars

(* The same, with the age of every caller's origin call followed. *)
InitDelay ==
    Started(StartCatalogs(TRUE), {NoCookie}) /\ fetched = [c \in AllCallers |-> 0]

SpecDelay == InitDelay /\ [][NextCatalog]_vars

(* The enriched-inventory route, one request at a time. *)
NextInventory ==
    \/ InventoryIdentity
    \/ InventoryPage
    \/ InventoryCatalogRead
    \/ InventoryCatalogFetch
    \/ InventoryCatalogWrite
    \/ InventoryCatalog
    \/ \E d \in CatalogTicks : Tick(d)

SpecInventory == InitCatalog /\ [][NextInventory]_vars

(* The same, where a page request that can be made is eventually made and *)
(* answered: the loop of get_user_limiteds has nothing else to wait for.  *)
SpecInventoryFair == SpecInventory /\ WF_vars(InventoryPage)

(* The verification handshake and the ad route. *)
NextCredentials ==
    \/ \E a \in Accounts : get_phrase(a)
    \/ \E a \in Accounts : verify_phrase(a)
    \/ \E a \in PlayerIds : post_trade_ad(a)
    \/ \E d \in CookieTicks : Tick(d)

\* the starts that differ in the cookie keys: no step here reads the catalog key
InitCredentials ==
    Started({[entry |-> NoCatalog, snap |-> NoSnap]}, StartCookies) /\ fetched = NotFollowed

SpecCredentials == InitCredentials /\ [][NextCredentials]_vars

(* The enrichment of lines 117-123 on its own: every inventory against every *)
(* catalog result, applied in place as the loop does, any number of times.   *)
EnrichInputs ==
    { NoRet } \cup { Ret(FALSE, Flatten(c), "origin") : c \in { d \in OriginCatalogs : ~Raises(d) } }

InitEnrich ==
    /\ redis = [catalog |-> NoCatalog, cookie |-> [a \in Accounts |-> NoCookie]]
    /\ cpc = [c \in AllCallers |-> "idle"]
    /\ cat_data = [c \in AllCallers |-> << >>]
    /\ cat_items = [c \in AllCallers |-> << >>]
    /\ cres = [c \in AllCallers |-> NoRet]
    /\ cenv = [c \in AllCallers |-> NoEnv]
    /\ fetched = [c \in AllCallers |-> -1]
    /\ snapshot = NoSnap
    /\ ipc = "catalog"
    /\ owned \in OwnedLists
    /\ user_id = 156
    /\ all_items = owned
    /\ next_page_cursor = EmptyCursor
    /\ requested = << "" >>
    /\ answered = 1
    /\ served = Len(owned)
    /\ inventory = FetchDone(owned)
    /\ rolimons_items \in EnrichInputs
    /\ verifying = EmptyBag
    /\ posting = NoPosting
    /\ resp = NoResp

EnrichInPlace ==
    /\ ipc = "catalog"
    /\ inventory' = [inventory EXCEPT !.items = EnrichIfCatalog(inventory.items, rolimons_items)]
    /\ resp' = NoResp
    /\ UNCHANGED <<credVars, fetched, redis, catVars, snapshot, ipc, owned, user_id, all_items,
                   next_page_cursor, requested, answered, served, rolimons_items>>

SpecEnrich == InitEnrich /\ [][EnrichInPlace]_vars

(* The whole application. *)
Next == NextCatalog \/ NextInventory \/ NextCredentials

Spec == Init /\ [][Next]_vars

----------------------------------------------------------------------------
(* Properties.                                                             *)

\* the step is caller c's cache read
IsRead(c) == cpc[c] = "idle" /\ cpc'[c] # "idle"

\* the step is the credential lookup of a publish for account a: it ends the
\* request with a response, or the request goes on to the origin call
IsLookup(a) ==
    /\ ~posting.active
    /\ \/ posting'.active /\ posting'.data.player_id = a
       \/ resp'.op = "post_trade_ad" /\ resp'.acct = a

\* the step is the origin call of a publish for account a, and its response
IsAdPost(a) == posting.active /\ posting.data.player_id = a /\ ~posting'.active

\* the step is a step of a publish for account a
IsPublish(a) == IsLookup(a) \/ IsAdPost(a)

\* C1 as stated: a publish whose lookup finds the account's cookie key not held
\* (never stored, or expired) answers Unauthenticated and sends no ad request.
C1_Original ==
    [][\A a \in Accounts :
         IsLookup(a) /\ ~redis.cookie[a].live
           => resp'.kind = "Unauthenticated" /\ ~posting'.active /\ ~resp'.ad.sent]_vars

\* C1 as amended: such a publish sends no ad request: the lookup ends it; it
\* answers Unauthenticated (401) when the lookup reaches Redis, CacheUnavailable
\* (500) when it does not.
C1_NoCredential ==
    [][\A a \in Accounts :
         IsLookup(a) /\ ~redis.cookie[a].live
           => /\ ~posting'.active
              /\ resp'.op = "post_trade_ad"
              /\ ~resp'.ad.sent
              /\ resp'.cache = "ok" => resp'.kind = "Unauthenticated" /\ resp'.status = 401
              /\ resp'.cache = "error" => resp'.kind = "CacheUnavailable" /\ resp'.status = 500]_vars

\* a publish is refused for an account whose key is not held, while the other
\* account's credential is held
C1_Witness ==
    /\ resp.op = "post_trade_ad"
    /\ resp.kind = "Unauthenticated"
    /\ resp.acct \in Accounts
    /\ ~redis.cookie[resp.acct].live
    /\ \E b \in Accounts : redis.cookie[b].live

\* C2 as stated: a read of the empty (or expired, or evicted) key goes to the
\* origin and the call reports source = origin; a read while the key is held
\* reports source = cache with the entries of the call that wrote it.
C2_Original ==
    [][\A c \in Callers :
         /\ IsRead(c) /\ ~redis.catalog.live => cpc'[c] = "fetch"
         /\ cpc[c] \in {"fetch", "write"} /\ cpc'[c] = "ret" => cres'[c].msg = "origin"
         /\ IsRead(c) /\ redis.catalog.live
              => cpc'[c] = "ret" /\ cres'[c] = Ret(FALSE, snapshot.items, "cache")]_vars

\* the key is held only within 900 s of the write that stored it
C2_Window ==
    redis.catalog.live
      => /\ snapshot.written
         /\ snapshot.age < CACHE_EXPIRATION_SECONDS
         /\ redis.catalog.ttl = CACHE_EXPIRATION_SECONDS - snapshot.age

\* C2 as amended: a read of the empty (or expired, or evicted) key goes to the
\* origin, and the call reports source = origin when the origin call succeeds;
\* a read that reaches Redis while the key is held reports source = cache with
\* the entries the writing call returned; the key is held only within 900 s of
\* its write.
C2_CacheAside ==
    /\ []C2_Window
    /\ [][\A c \in Callers :
            /\ IsRead(c) /\ ~redis.catalog.live => cpc'[c] = "fetch"
            /\ cpc[c] = "fetch" /\ cpc'[c] # "fetch" /\ cenv'[c].origin = "ok"
                 => cpc'[c] = "write"
            /\ cpc[c] = "write" /\ cpc'[c] = "ret"
                 => /\ cres'[c] = Ret(FALSE, cat_items[c], "origin")
                    /\ cenv'[c].write = "ok" => snapshot'.items = cres'[c].items
            /\ IsRead(c) /\ redis.catalog.live /\ cenv'[c].read # "unavailable"
                 => cpc'[c] = "ret" /\ cres'[c] = Ret(FALSE, snapshot.items, "cache")]_vars

\* a call is served from the cache, some time after the write, with two entries
C2_Witness ==
    \E c \in Callers :
        /\ cpc[c] = "ret"
        /\ cres[c].msg = "cache"
        /\ Len(cres[c].items) = 2
        /\ snapshot.age > 0

\* C3: a fetch that met no failure returns the owned items, all of them, once
\* each and in listing order; it stops at the first page without a next cursor
\* and every request after the first carried the cursor of the page before.
C3_FetchAll ==
    /\ ipc = "catalog"
         => /\ ~inventory.none
            /\ inventory.items = owned
            /\ ~HasCursor(next_page_cursor)
            /\ answered = Len(requested)
            /\ requested[1] = ""
            /\ \A i \in 2..Len(requested) : requested[i] # ""
    /\ ipc = "pages" /\ requested # << >> => HasCursor(next_page_cursor)

\* three owned items arrived over three pages
C3_Witness ==
    /\ ipc = "catalog"
    /\ Len(owned) = 3
    /\ answered = 3

\* the step is a verify_phrase call that the origin answered 2xx without a token
IsVerifyWithoutToken == resp'.op = "verify_phrase" /\ resp'.origin = "ok" /\ resp'.cookie = ""

\* the step is a publish following such a call for the same account, which had
\* no credential
IsPublishAfterFailedVerify ==
    /\ resp.op = "verify_phrase" /\ resp.origin = "ok" /\ resp.cookie = ""
    /\ resp.acct \in Accounts
    /\ ~redis.cookie[resp.acct].live
    /\ IsLookup(resp.acct)

\* C4 as stated: a verify answered without a token yields VerificationFailed and
\* leaves the store unchanged, and a following publish for an account without a
\* credential answers Unauthenticated.
C4_Original ==
    [][/\ IsVerifyWithoutToken => resp'.kind = "VerificationFailed" /\ redis' = redis
       /\ IsPublishAfterFailedVerify => resp'.kind = "Unauthenticated"]_vars

\* C4 as amended: ... a following publish for an account without a credential
\* sends no ad request, and answers Unauthenticated when its lookup reaches
\* Redis, CacheUnavailable when it does not.
C4_VerificationFailed ==
    [][/\ IsVerifyWithoutToken
            => /\ resp'.kind = "VerificationFailed" /\ resp'.status = 400
               /\ redis' = redis
               /\ verifying' = verifying
       /\ IsPublishAfterFailedVerify
            => /\ ~posting'.active
               /\ ~resp'.ad.sent
               /\ resp'.cache = "ok" => resp'.kind = "Unauthenticated"
               /\ resp'.cache = "error" => resp'.kind = "CacheUnavailable"]_vars

\* a verify failed for want of a token while the account held a credential
C4_Witness ==
    /\ resp.op = "verify_phrase"
    /\ resp.kind = "VerificationFailed"
    /\ resp.origin = "ok"
    /\ redis.cookie[resp.acct].live

\* C5 as stated: the failure kind determines the status class: NotFound 404,
\* Unauthenticated 401, UpstreamError and cache failures 500; and an inventory
\* request whose identity lookup failed in transport (or non-2xx) is answered
\* UpstreamError, not NotFound.
C5_StatusByKind ==
    /\ resp.kind = "NotFound" => resp.status = 404
    /\ resp.kind = "Unauthenticated" => resp.status = 401
    /\ resp.kind \in {"UpstreamError", "CacheUnavailable"} => resp.status = 500
    /\ resp.op = "get_inventory" /\ resp.origin = "fail"
         => resp.kind = "UpstreamError" /\ resp.status = 500

\* C6 as stated: whenever a catalog was supplied, the empty one included, every
\* item of the answer carries the value of its catalog entry, or -1 without one.
C6_UnmatchedValue ==
    resp.op = "get_inventory" /\ resp.status = 200 /\ ~rolimons_items.none
      => \A i \in 1..Len(resp.data) :
           LET m == Lookup(rolimons_items.items, ToStr(resp.data[i].assetId))
           IN  /\ resp.data[i].enriched
               /\ resp.data[i].value = IF m.found THEN m.entry.value ELSE -1

\* C7: the step at which a page request fails answers UpstreamError without
\* items, and the fetch is over: no page is requested after the failed one.
C7_FetchAborts ==
    /\ [](Len(requested) > answered => ipc = "idle" /\ inventory.none)
    /\ [][Len(requested') > answered' /\ requested' # requested
            => /\ resp'.op = "get_inventory"
               /\ resp'.status = 500
               /\ resp'.kind = "UpstreamError"
               /\ resp'.data = << >>]_vars

\* a page request failed after two pages had brought items
C7_Witness ==
    /\ Len(requested) = 3
    /\ answered = 2
    /\ served >= 2
    /\ resp.status = 500

\* C8: a call whose origin call succeeded returns the fetched entries with
\* source = origin, whether the cache read missed or failed and whether the
\* cache write succeeded or failed.
C8_CacheAdvisory ==
    \A c \in Callers :
        cpc[c] = "ret" /\ cenv[c].origin = "ok"
          => /\ cenv[c].read \in {"miss", "unavailable"}
             /\ cenv[c].write \in {"ok", "failed"}
             /\ cres[c] = Ret(FALSE, Flatten(cat_data[c]), "origin")

\* a call returns two fresh entries although both its cache calls failed
C8_Witness ==
    \E c \in Callers :
        /\ cpc[c] = "ret"
        /\ cenv[c] = Env("unavailable", "ok", "failed")
        /\ Len(cres[c].items) = 2

\* the held snapshot is the complete flattening of one origin response
C9_Complete ==
    redis.catalog.live
      => /\ snapshot.written
         /\ snapshot.src \in OriginCatalogs
         /\ redis.catalog.val = Dumps(Flatten(snapshot.src))

\* C9: the key is absent or holds the complete flattening of one origin
\* response; a failed or unparseable origin response leaves the store as it
\* was, and only a caller's successful write puts a new value under the key.
C9_SnapshotComplete ==
    /\ []C9_Complete
    /\ [][/\ \A c \in Callers : cpc[c] = "fetch" /\ cpc'[c] = "ret" => redis' = redis
          /\ redis'.catalog.live /\ redis'.catalog.val # redis.catalog.val
               => \E c \in Callers :
                    /\ cpc[c] = "write"
                    /\ cenv'[c].write = "ok"
                    /\ redis'.catalog.val = Dumps(Flatten(cat_data[c]))]_vars

\* an origin call has failed while a two-entry snapshot is held
C9_Witness ==
    /\ redis.catalog.live
    /\ Len(snapshot.src) = 2
    /\ \E c \in Callers : cpc[c] = "ret" /\ cenv[c].origin \in {"error", "parse"}

\* the step puts a token under account a's key, or restarts its lifetime
IsStore(a) ==
    /\ redis'.cookie[a].live
    /\ ~(/\ redis.cookie[a].live
         /\ redis'.cookie[a].val = redis.cookie[a].val
         /\ redis'.cookie[a].ttl <= redis.cookie[a].ttl)

\* the step is the store of w, one of the verify_phrase requests that waited
IsStoreOf(w) == BagIn(w, verifying) /\ verifying' = verifying (-) SetToBag({w})

\* the verify_phrase requests of account a that wait for their store
Waiting(a) == { w \in BagToSet(verifying) : w.acct = a }

\* C10 as stated: a credential is held only while the origin response that
\* carried its token is less than 86400 s old: the store of a verify_phrase
\* leaves the key no more than what remains of the 86400 s since its origin
\* response came.
C10_Original ==
    [][\A a \in Accounts :
         IsStore(a) => \E w \in Waiting(a) :
                          /\ IsStoreOf(w)
                          /\ redis'.cookie[a].ttl <= COOKIE_EXPIRATION_SECONDS - w.age]_vars

\* a held credential is a token, with at most 86400 s left
C10_Live ==
    \A a \in Accounts :
        redis.cookie[a].live
          => /\ redis.cookie[a].val \in Tokens
             /\ redis.cookie[a].ttl > 0
             /\ redis.cookie[a].ttl <= COOKIE_EXPIRATION_SECONDS

\* C10 as amended: only the store of a verify_phrase for the account, whose
\* origin call succeeded and gave a token, puts a token under the account's key
\* (one key per account); it puts that token there with a lifetime of 86400 s
\* counted from the store, whatever the key held before, however long ago the
\* origin response came and whichever other verify_phrase of the account got
\* its origin response later; every verify_phrase answered with success has
\* done so.
C10_Credential ==
    /\ []C10_Live
    /\ [][\A a \in Accounts :
            /\ IsStore(a)
                 => /\ \E w \in Waiting(a) :
                          /\ IsStoreOf(w)
                          /\ w.cookie \in Tokens
                          /\ redis'.cookie[a] = Setex(COOKIE_EXPIRATION_SECONDS, w.cookie)
                    /\ resp'.origin = "ok"
                    /\ resp'.op = "verify_phrase" /\ resp'.acct = a
                    /\ \A b \in Accounts \ {a} : redis'.cookie[b] = redis.cookie[b]
            /\ resp'.op = "verify_phrase" /\ resp'.acct = a
                 /\ resp'.kind = "VerificationCredential"
                 => /\ resp'.origin = "ok"
                    /\ resp'.cookie \in Tokens
                    /\ redis'.cookie[a] = Setex(COOKIE_EXPIRATION_SECONDS, resp'.cookie)]_vars

\* a verify answered 201 has put tokB under an account's key while the other
\* account's credential is half-way through its lifetime, and a verify_phrase
\* of the same account whose origin response gave tokA and is the older one
\* still waits for its store
C10_Witness ==
    /\ resp.op = "verify_phrase"
    /\ resp.kind = "VerificationCredential"
    /\ resp.status = 201
    /\ redis.cookie[resp.acct] = Setex(COOKIE_EXPIRATION_SECONDS, "tokB")
    /\ \E w \in Waiting(resp.acct) : w.cookie = "tokA" /\ w.age > 0
    /\ \E b \in Accounts :
         b # resp.acct /\ redis.cookie[b].live /\ redis.cookie[b].ttl < COOKIE_EXPIRATION_SECONDS

\* C11 as stated: a publish leaves the credential store as it was, whatever its
\* outcome, and every publish for an account whose credential is held reaches
\* the origin.
C11_Original ==
    [][\A a \in Accounts :
         /\ IsPublish(a) => redis' = redis
         /\ IsLookup(a) /\ redis.cookie[a].live => posting'.active]_vars

\* C11 as amended: no step of a publish changes the credential store, whatever
\* its outcome, and every publish for an account whose credential is held, and
\* whose lookup reaches the store, finds that credential and reaches the origin
\* with it.
C11_ReadOnly ==
    [][\A a \in Accounts :
         /\ IsPublish(a) => redis' = redis
         /\ IsPublish(a) /\ resp'.op = "post_trade_ad"
              => resp'.kind \in {"ok", "UpstreamError", "Fault", "Unauthenticated",
                                 "CacheUnavailable"}
         /\ IsLookup(a) /\ redis.cookie[a].live /\ resp'.cache # "error"
              => /\ posting'.active
                 /\ posting'.user_cookie = redis.cookie[a].val
         /\ IsAdPost(a)
              => /\ resp'.ad.sent
                 /\ resp'.ad.cookie = posting.user_cookie
                 /\ resp'.kind \in {"ok", "UpstreamError", "Fault"}]_vars

\* a publish reached the origin with a credential half-way through its lifetime
C11_Witness ==
    /\ resp.op = "post_trade_ad"
    /\ resp.ad.sent
    /\ redis.cookie[resp.acct].live
    /\ redis.cookie[resp.acct].val = resp.ad.cookie
    /\ redis.cookie[resp.acct].ttl < COOKIE_EXPIRATION_SECONDS

\* C12: a publish whose credential lookup cannot reach the cache answers
\* CacheUnavailable with status 500 and sends no ad request, whether or not a
\* credential is held; the answer to an absent credential, when the cache is
\* reached, is Unauthenticated with status 401.
C12_CacheUnavailable ==
    [][\A a \in PlayerIds :
         /\ IsLookup(a) /\ resp'.cache = "error"
              => /\ resp'.kind = "CacheUnavailable"
                 /\ resp'.status = 500
                 /\ ~resp'.ad.sent
                 /\ ~posting'.active
         /\ IsLookup(a) /\ resp'.kind = "Unauthenticated"
              => /\ resp'.status = 401
                 /\ resp'.cache = "ok"
                 /\ ~posting'.active
                 /\ a \in Accounts => ~redis.cookie[a].live]_vars

\* a publish found the cache unreachable while the account's credential was held
C12_Witness ==
    /\ resp.op = "post_trade_ad"
    /\ resp.kind = "CacheUnavailable"
    /\ resp.cache = "error"
    /\ resp.acct \in Accounts
    /\ redis.cookie[resp.acct].live

\* C13 as stated: every verify_phrase call ends in VerificationCredential,
\* VerificationFailed or UpstreamError, and a success is answered only when the
\* credential was stored.
C13_TypedOutcome ==
    resp.op = "verify_phrase"
      => /\ resp.kind \in {"VerificationCredential", "VerificationFailed", "UpstreamError"}
         /\ resp.kind = "VerificationCredential"
              => redis.cookie[resp.acct] = Setex(COOKIE_EXPIRATION_SECONDS, resp.cookie)

\* C14 as stated: an inventory request is answered with success only when the
\* identity, inventory and catalog stages all succeeded.
C14_ShortCircuit ==
    resp.op = "get_inventory" /\ resp.status = 200
      => /\ Truthy(SomeId(user_id))
         /\ ~inventory.none
         /\ ~rolimons_items.none

\* the entries of an origin mapping that have all four details
ValidItems(items) == SelectSeq(items, LAMBDA e : Len(e.details) >= 4)

\* C15 as stated: a call that missed the cache and got a successful origin
\* response returns one entry per valid origin item, with name, rap and value
\* from details[0], details[2] and details[3]; invalid items are dropped and
\* the call does not fail because of them.
C15_DropsInvalid ==
    \A c \in Callers :
        cpc[c] = "ret" /\ cenv[c].read # "hit" /\ cenv[c].origin \in {"ok", "IndexError"}
          => cres[c] = Ret(FALSE, Flatten(ValidItems(cat_data[c])), "origin")

\* C16: enriching again against the same catalog leaves the rap and value of
\* every item that has been enriched as they are, and an inventory that the
\* enrichment left without them stays without them.
C16_Idempotent ==
    [][/\ Len(inventory'.items) = Len(inventory.items)
       /\ \A i \in 1..Len(inventory.items) :
            /\ inventory.items[i].enriched
                 => /\ inventory'.items[i].enriched
                    /\ inventory'.items[i].rap = inventory.items[i].rap
                    /\ inventory'.items[i].value = inventory.items[i].value
            /\ inventory'.items[i].assetId = inventory.items[i].assetId
       /\ EnrichIfCatalog(inventory'.items, rolimons_items) = inventory'.items]_vars

\* an enriched inventory of three items, one with and one without a catalog
\* match, one without a recent average price
C16_Witness ==
    /\ Len(inventory.items) = 3
    /\ \A i \in 1..3 : inventory.items[i].enriched
    /\ \E i, j, k \in 1..3 :
         /\ inventory.items[i].value = 10000
         /\ inventory.items[j].value = -1
         /\ inventory.items[k].rap = -1

\* every caller past its miss has made its own origin call, and one whose
\* origin call succeeded has attempted its own write and returns its own entries
C17_OwnCall ==
    \A c \in Callers :
        /\ cpc[c] \in {"write", "ret"} /\ cenv[c].read # "hit" => cenv[c].origin # "none"
        /\ cpc[c] = "write" => cenv[c].origin = "ok" /\ cenv[c].write = "none"
        /\ cpc[c] = "ret" /\ cenv[c].read # "hit" /\ cenv[c].origin = "ok"
             => /\ cenv[c].write # "none"
                /\ cres[c].msg = "origin"
                /\ cres[c].items = Flatten(cat_data[c])

\* what C17 says of every step: a caller that misses goes to the origin itself
\* whatever the other callers are doing; its origin call gives nothing to any
\* other caller; and a successful write puts the writer's complete snapshot in
\* the cache, over whatever was there
C17_Step ==
    \A c \in Callers :
        /\ IsRead(c) /\ cenv'[c].read # "hit" => cpc'[c] = "fetch"
        /\ cpc[c] = "fetch" /\ cpc'[c] # "fetch"
             => /\ cenv'[c].origin # "none"
                /\ \A d \in Callers \ {c} :
                     /\ cpc'[d] = cpc[d]
                     /\ cres'[d] = cres[d]
                     /\ cat_data'[d] = cat_data[d]
        /\ cpc[c] = "write" /\ cpc'[c] = "ret" /\ cenv'[c].write = "ok"
             => /\ redis'.catalog.live
                /\ Loads(redis'.catalog.val) = Flatten(cat_data[c])
                /\ redis'.catalog.ttl = CACHE_EXPIRATION_SECONDS

\* every caller that has returned after a miss made its own origin call,
\* attempted its own write and returns its own entries with source = origin
C17_EveryCaller ==
    \A c \in Callers :
        cpc[c] = "ret" /\ cenv[c].read = "miss"
          => /\ cenv[c].origin # "none"
             /\ cenv[c].write # "none"
             /\ cres[c].msg = "origin"
             /\ cres[c].items = Flatten(cat_data[c])

\* C17 as stated: there is no coalescing: each caller that misses makes its own
\* origin call, and every one of them attempts a cache write and returns the
\* result of its own origin call with source = origin; a successful write puts
\* the writer's complete snapshot in the cache.
C17_Original == []C17_EveryCaller /\ [][C17_Step]_vars

\* C17 as amended: there is no coalescing.  A caller that misses goes to the
\* origin itself whatever the other callers are doing; its origin call gives
\* nothing to any other caller; each caller whose origin call succeeded attempts
\* its own write and returns its own entries with source = origin, and only
\* such a caller attempts a write; and a successful write puts the writer's
\* complete snapshot in the cache, over whatever was there.
C17_NoCoalescing == []C17_OwnCall /\ [][C17_Step]_vars

\* two callers missed, fetched different catalogs and both wrote; the cache
\* holds the snapshot of the second caller, which overwrote the first's
C17_Witness ==
    /\ \A c \in {1, 2} : cpc[c] = "ret" /\ cenv[c] = Env("miss", "ok", "ok")
    /\ cat_data[1] # cat_data[2]
    /\ Len(cat_data[1]) > 0
    /\ redis.catalog.live
    /\ redis.catalog.ttl = CACHE_EXPIRATION_SECONDS
    /\ redis.catalog.val = Dumps(Flatten(cat_data[2]))

\* the step is a page request of the running fetch
IsPageRequest == ipc = "pages" /\ Len(requested') = Len(requested) + 1

\* C18: the fetch returns exactly at a page that carries no next cursor or at
\* a failed page request: a page with a non-empty cursor is always followed by
\* another request (no count of pages ends the loop), every request asks for
\* one page, and a fetch whose cursor chain ends eventually returns.  The
\* model follows a chain for MaxPages requests.
C18_Termination ==
    /\ [][/\ IsPageRequest /\ answered' = answered + 1
               => /\ ipc' # "pages" <=> ~(next_page_cursor'.present /\ next_page_cursor'.s # "")
                  /\ ipc' # "pages" => ipc' = "catalog" /\ answered' = Len(requested')
          /\ IsPageRequest /\ answered' = answered
               => ipc' = "idle" /\ resp'.status = 500
          /\ ipc = "pages" /\ ipc' # "pages" => IsPageRequest]_vars
    /\ (ipc = "pages") ~> (ipc # "pages" \/ Len(requested) = MaxPages)

\* the listing has delivered the account's only item and goes on naming a next
\* page: the fetch is still running after MaxPages requests
C18_Witness ==
    /\ ipc = "pages"
    /\ Len(requested) = MaxPages
    /\ answered = MaxPages
    /\ Len(owned) = 1
    /\ served = 1
    /\ next_page_cursor.s = "c1"

\* C19 as stated: no call is served from the cache a snapshot whose data the
\* origin gave more than 900 s before the read, and no write replaces a held
\* snapshot by one whose data was fetched earlier.
C19_NoStaleServe ==
    [][Followed => \A c \in Callers :
         /\ IsRead(c) /\ cenv'[c].read = "hit"
              => snapshot.fetched <= CACHE_EXPIRATION_SECONDS
         /\ cpc[c] = "write" /\ cenv'[c].write = "ok" /\ redis.catalog.live
              => fetched[c] <= snapshot.fetched]_vars

\* what C20 says of a publish for account a: the lookup that lets the request
\* go on found the token held under a's key; the ad request sent is the one
\* request of that publish, with that token and the body's player id and lists,
\* a missing list as the empty list
SendsOwnToken(a) ==
    /\ IsLookup(a) /\ posting'.active
         => /\ redis.cookie[a].live
            /\ posting'.user_cookie = redis.cookie[a].val
            /\ posting'.user_cookie \in Tokens
            /\ posting'.data.player_id = a
            /\ ~resp'.ad.sent
    /\ resp'.ad.sent /\ resp'.acct = a
         => /\ IsAdPost(a)
            /\ resp'.op = "post_trade_ad"
            /\ resp'.ad.cookie = posting.user_cookie
            /\ resp'.ad.player_id = a
            /\ resp'.ad.offer_item_ids = GetOrEmpty(posting.data.offer_item_ids)
            /\ resp'.ad.request_item_ids = GetOrEmpty(posting.data.request_item_ids)
            /\ resp'.ad.request_tags = GetOrEmpty(posting.data.request_tags)

\* the publish half of C20 on its own: every ad request carries the token its
\* lookup found under its own account's key, and the body's player id and lists
PublishSendsOwnToken == [][\A a \in Accounts : SendsOwnToken(a)]_vars

\* C20: a publish that sends an ad request sends the one request of its
\* response; the request carries the token the lookup found under the key of
\* the body's player id, the token held there at the time of the lookup, and
\* the body's player id and lists, a missing list as the empty list; and the
\* token held under a's key is the token of the most recent successful
\* verify_phrase for a: only a verify_phrase answered with success puts a token
\* under the key.
C20_OwnToken ==
    [][\A a \in Accounts :
         /\ SendsOwnToken(a)
         /\ IsStore(a) => resp'.op = "verify_phrase" /\ resp'.acct = a
                           /\ resp'.kind = "VerificationCredential"]_vars

=============================================================================
